---- MODULE Spec2Model ----
(***************************************************************************)
(* Model of main/main.c of weatherDisplay: the Wi-Fi station join          *)
(* (connectWIFI with wifiEventHandler / ipEventHandler running on the      *)
(* event-loop task) followed by one HTTP request (sendHTTPReq).            *)
(*                                                                         *)
(* Two execution contexts:                                                 *)
(*   - the main task, whose position is pc (app_main -> connectWIFI ->     *)
(*     sendHTTPReq);                                                       *)
(*   - the event-loop task, which runs one registered handler to           *)
(*     completion per delivered event.  Handlers never block, and only     *)
(*     this task writes connRetries, so a handler is one atomic step.      *)
(* The radio driver and the network stack are the environment: once the    *)
(* driver has been started they may deliver any sequence of events.        *)
(***************************************************************************)
EXTENDS Integers, Sequences, FiniteSets

\* ------------------------------------------------------------------ bounds
MaxRetry == 2      \* WIFI_RETRY (CONFIG_ESP_MAXIMUM_RETRY) ranges over 0..MaxRetry
MaxEvents == 4     \* events delivered in one run
MaxReads == 2      \* reads of one fetch that return data
MaxCand == 2       \* address candidates getaddrinfo returns

\* --------------------------------------------------------- program constants
RecvBufSize == 64  \* char recv_buf[64]
ReqLen == 71       \* strlen(REQUEST)

WIFI_CONN_SUCC == "WIFI_CONN_SUCC"
WIFI_CONN_FAIL == "WIFI_CONN_FAIL"

WIFI_EVENT == "WIFI_EVENT"
IP_EVENT == "IP_EVENT"
WIFI_EVENT_STA_START == "WIFI_EVENT_STA_START"
WIFI_EVENT_STA_CONNECTED == "WIFI_EVENT_STA_CONNECTED"
WIFI_EVENT_STA_DISCONNECTED == "WIFI_EVENT_STA_DISCONNECTED"
IP_EVENT_STA_GOT_IP == "IP_EVENT_STA_GOT_IP"

VARIABLES
  wifiRetry,      \* WIFI_RETRY, fixed at build time
  connRetries,    \* static int connRetries
  groupCreated,   \* xEventGroupCreate() has run (wifiEventGroup is not NULL)
  wifiEventGroup, \* the bits set in the event group
  wifiReg,        \* wifiEventHandler is registered for (WIFI_EVENT, ANY_ID)
  ipReg,          \* ipEventHandler is registered for (IP_EVENT, STA_GOT_IP)
  started,        \* esp_wifi_start() has returned ESP_OK
  assocReqs,      \* number of esp_wifi_connect() calls so far
  hist,           \* the events delivered so far, in order
  firstTerminal,  \* the signal that was set first ("none" while neither is set)
  pc,             \* position of the main task
  bits,           \* local EventBits_t bits of connectWIFI
  outcome,        \* the branch of lines 134-140 connectWIFI took ("none" before)
  res,            \* struct addrinfo *res: "unset", "alloc", "freed"
  cands,          \* the candidate list res points to (empty when there is none)
  used,           \* the candidates whose fields socket() and connect() were given
  untried,        \* candidates left untried when connect() failed
  sock,           \* the socket s: "none", "open", "closed"
  calls,          \* the network calls of sendHTTPReq, in order: [op, ret]
  httpErr,        \* the ESP_LOGE category sendHTTPReq reported ("none" if none)
  out             \* the bytes written to stdout by putchar, in order

wifiVars == <<wifiRetry, connRetries, groupCreated, wifiEventGroup, wifiReg, ipReg,
              started, assocReqs, hist, firstTerminal>>
addrVars == <<cands, used, untried>>
httpVars == <<res, addrVars, sock, calls, httpErr, out>>
vars == <<wifiVars, pc, bits, outcome, httpVars>>

Signals == {WIFI_CONN_SUCC, WIFI_CONN_FAIL}

\* ------------------------------------------------------------ initial state
Init ==
  /\ wifiRetry \in 0..MaxRetry
  /\ connRetries = 0
  /\ groupCreated = FALSE
  /\ wifiEventGroup = {}
  /\ wifiReg = FALSE
  /\ ipReg = FALSE
  /\ started = FALSE
  /\ assocReqs = 0
  /\ hist = <<>>
  /\ firstTerminal = "none"
  /\ pc = "create"
  /\ bits = {}
  /\ outcome = "none"
  /\ res = "unset"
  /\ cands = <<>>
  /\ used = {}
  /\ untried = 0
  /\ sock = "none"
  /\ calls = <<>>
  /\ httpErr = "none"
  /\ out = <<>>

\* faulty variant of xEventGroupSetBits: the signal is assigned, not or-ed in
xEventGroupSetBits_Overwrite(bit) ==
  /\ wifiEventGroup' = {bit}
  /\ firstTerminal' = IF firstTerminal = "none" THEN bit ELSE firstTerminal
  /\ IF pc = "blocked"
       THEN pc' = "check" /\ bits' = {bit}
       ELSE UNCHANGED <<pc, bits>>

\* ------------------------------------------------- the event group (FreeRTOS)
\* xEventGroupSetBits: sets the bit; a task blocked in xEventGroupWaitBits on it
\* is made ready and handed the group's value as of this call.  Setting a bit
\* of a group that was never created is a failed assertion in the kernel.
xEventGroupSetBits(bit) ==
  IF ~groupCreated
    THEN /\ pc' = "aborted"
         /\ UNCHANGED <<wifiEventGroup, firstTerminal, bits>>
    ELSE /\ wifiEventGroup' = wifiEventGroup \cup {bit}
         /\ firstTerminal' = IF firstTerminal = "none" THEN bit ELSE firstTerminal
         /\ IF pc = "blocked"
              THEN pc' = "check" /\ bits' = wifiEventGroup \cup {bit}
              ELSE UNCHANGED <<pc, bits>>

\* ------------------------------------------------------------ event handlers
\* faulty variants of RetryAllowed: one retry too many; retrying without a bound
RetryAllowed_OffByOne(retries, max) == retries <= max
RetryAllowed_Always(retries, max) == TRUE

\* faulty variant of RetriesAfterGotIp: the counter is not reset
RetriesAfterGotIp_Kept(retries) == retries

\* line 51: the retry condition
RetryAllowed(retries, max) == retries < max

\* line 76: the value ipEventHandler gives connRetries
RetriesAfterGotIp(retries) == 0

\* faulty variant of wifiEventHandler: a retry is counted but esp_wifi_connect
\* is not called
wifiEventHandler_NoReconnect(event_base, event_id) ==
  IF event_base # WIFI_EVENT
    THEN UNCHANGED <<connRetries, assocReqs, wifiEventGroup, firstTerminal, pc, bits>>
  ELSE IF event_id = WIFI_EVENT_STA_START
    THEN /\ assocReqs' = assocReqs + 1
         /\ UNCHANGED <<connRetries, wifiEventGroup, firstTerminal, pc, bits>>
  ELSE IF event_id = WIFI_EVENT_STA_DISCONNECTED
    THEN IF connRetries < wifiRetry
           THEN /\ connRetries' = connRetries + 1
                /\ UNCHANGED <<assocReqs, wifiEventGroup, firstTerminal, pc, bits>>
           ELSE /\ wifiEventGroup' = wifiEventGroup \cup {WIFI_CONN_FAIL}
                /\ firstTerminal' =
                     IF firstTerminal = "none" THEN WIFI_CONN_FAIL ELSE firstTerminal
                /\ IF pc = "blocked"
                     THEN pc' = "check" /\ bits' = wifiEventGroup \cup {WIFI_CONN_FAIL}
                     ELSE UNCHANGED <<pc, bits>>
                /\ UNCHANGED <<connRetries, assocReqs>>
  ELSE UNCHANGED <<connRetries, assocReqs, wifiEventGroup, firstTerminal, pc, bits>>

\* wifiEventHandler, lines 37-62
wifiEventHandler(event_base, event_id) ==
  IF event_base # WIFI_EVENT
    THEN UNCHANGED <<connRetries, assocReqs, wifiEventGroup, firstTerminal, pc, bits>>
  ELSE IF event_id = WIFI_EVENT_STA_START
    THEN /\ assocReqs' = assocReqs + 1
         /\ UNCHANGED <<connRetries, wifiEventGroup, firstTerminal, pc, bits>>
  ELSE IF event_id = WIFI_EVENT_STA_DISCONNECTED
    THEN IF RetryAllowed(connRetries, wifiRetry)
           THEN /\ assocReqs' = assocReqs + 1
                /\ connRetries' = connRetries + 1
                /\ UNCHANGED <<wifiEventGroup, firstTerminal, pc, bits>>
           ELSE /\ xEventGroupSetBits(WIFI_CONN_FAIL)
                /\ UNCHANGED <<connRetries, assocReqs>>
  ELSE UNCHANGED <<connRetries, assocReqs, wifiEventGroup, firstTerminal, pc, bits>>

\* ipEventHandler, lines 64-83
ipEventHandler(event_base, event_id) ==
  IF event_base # IP_EVENT
    THEN UNCHANGED <<connRetries, assocReqs, wifiEventGroup, firstTerminal, pc, bits>>
  ELSE IF event_id = IP_EVENT_STA_GOT_IP
    THEN /\ connRetries' = RetriesAfterGotIp(connRetries)
         /\ xEventGroupSetBits(WIFI_CONN_SUCC)
         /\ UNCHANGED assocReqs
  ELSE UNCHANGED <<connRetries, assocReqs, wifiEventGroup, firstTerminal, pc, bits>>

\* The event loop runs the handlers registered for the event (lines 106-112:
\* wifiEventHandler for every WIFI_EVENT id, ipEventHandler for IP_EVENT_STA_GOT_IP).
Dispatch(event_base, event_id) ==
  /\ IF event_base = WIFI_EVENT /\ wifiReg
       THEN wifiEventHandler(event_base, event_id)
     ELSE IF event_base = IP_EVENT /\ event_id = IP_EVENT_STA_GOT_IP /\ ipReg
       THEN ipEventHandler(event_base, event_id)
     ELSE UNCHANGED <<connRetries, assocReqs, wifiEventGroup, firstTerminal, pc, bits>>
  /\ UNCHANGED <<wifiRetry, groupCreated, wifiReg, ipReg, started, outcome, httpVars>>

\* The driver and the network stack post events once the driver is started.
Deliverable == started /\ pc # "aborted"

\* hist records the events the handlers act on
Record(event_id) == Len(hist) < MaxEvents /\ hist' = Append(hist, event_id)

StaStart ==
  /\ Deliverable
  /\ Record(WIFI_EVENT_STA_START)
  /\ Dispatch(WIFI_EVENT, WIFI_EVENT_STA_START)

StaDisconnected ==
  /\ Deliverable
  /\ Record(WIFI_EVENT_STA_DISCONNECTED)
  /\ Dispatch(WIFI_EVENT, WIFI_EVENT_STA_DISCONNECTED)

GotIp ==
  /\ Deliverable
  /\ Record(IP_EVENT_STA_GOT_IP)
  /\ Dispatch(IP_EVENT, IP_EVENT_STA_GOT_IP)

\* any other Wi-Fi event (the default branch, lines 59-60)
StaConnected ==
  /\ Deliverable
  /\ UNCHANGED hist
  /\ Dispatch(WIFI_EVENT, WIFI_EVENT_STA_CONNECTED)

\* faulty variant of CreateEventGroup: esp_wifi_start is called here, before
\* the handlers are registered
CreateEventGroup_StartsDriverFirst ==
  /\ pc = "create"
  /\ groupCreated' = TRUE
  /\ wifiEventGroup' = {}
  /\ \E ok \in BOOLEAN :
       /\ started' = ok
       /\ pc' = IF ok THEN "register_wifi" ELSE "aborted"
  /\ UNCHANGED <<wifiRetry, connRetries, wifiReg, ipReg, assocReqs, hist,
                 firstTerminal, bits, outcome, httpVars>>

\* --------------------------------------------------------------- connectWIFI
\* lines 88-101: create the event group, then bring up netif, the default event
\* loop and the Wi-Fi driver; a failed ESP_ERROR_CHECK aborts.
CreateEventGroup ==
  /\ pc = "create"
  /\ groupCreated' = TRUE
  /\ wifiEventGroup' = {}
  /\ \E ok \in BOOLEAN : pc' = IF ok THEN "register_wifi" ELSE "aborted"
  /\ UNCHANGED <<wifiRetry, connRetries, wifiReg, ipReg, started, assocReqs, hist,
                 firstTerminal, bits, outcome, httpVars>>

\* lines 105-107
RegisterWifiHandler ==
  /\ pc = "register_wifi"
  /\ \E ok \in BOOLEAN :
       /\ wifiReg' = ok
       /\ pc' = IF ok THEN "register_ip" ELSE "aborted"
  /\ UNCHANGED <<wifiRetry, connRetries, groupCreated, wifiEventGroup, ipReg, started,
                 assocReqs, hist, firstTerminal, bits, outcome, httpVars>>

\* lines 110-112
RegisterIpHandler ==
  /\ pc = "register_ip"
  /\ \E ok \in BOOLEAN :
       /\ ipReg' = ok
       /\ pc' = IF ok THEN "start" ELSE "aborted"
  /\ UNCHANGED <<wifiRetry, connRetries, groupCreated, wifiEventGroup, wifiReg, started,
                 assocReqs, hist, firstTerminal, bits, outcome, httpVars>>

\* lines 114-127: set mode, set config, start the driver
WifiStart ==
  /\ pc = "start"
  /\ \E ok \in BOOLEAN :
       /\ started' = ok
       /\ pc' = IF ok THEN "wait" ELSE "aborted"
  /\ UNCHANGED <<wifiRetry, connRetries, groupCreated, wifiEventGroup, wifiReg, ipReg,
                 assocReqs, hist, firstTerminal, bits, outcome, httpVars>>

\* faulty variant of WaitSatisfied: the wait returns without any bit set, as a
\* wait with a zero timeout would
WaitSatisfied_Always(group) == TRUE

\* line 130: the condition on which xEventGroupWaitBits returns at once
WaitSatisfied(group) == group \cap Signals # {}

\* lines 130-131: xEventGroupWaitBits(group, SUCC|FAIL, pdFALSE, pdFALSE,
\* portMAX_DELAY): returns the group's value if a waited-for bit is set, and
\* otherwise blocks without a timeout; no bit is cleared on exit.
WaitBits ==
  /\ pc = "wait"
  /\ IF WaitSatisfied(wifiEventGroup)
       THEN pc' = "check" /\ bits' = wifiEventGroup
       ELSE pc' = "blocked" /\ UNCHANGED bits
  /\ UNCHANGED <<wifiVars, outcome, httpVars>>

\* faulty variant of Outcome: the Failure bit is tested first
Outcome_FailFirst(b) ==
  IF WIFI_CONN_FAIL \in b THEN "Failed"
  ELSE IF WIFI_CONN_SUCC \in b THEN "Joined"
  ELSE "Unexpected"

\* lines 134-140
Outcome(b) ==
  IF WIFI_CONN_SUCC \in b THEN "Joined"
  ELSE IF WIFI_CONN_FAIL \in b THEN "Failed"
  ELSE "Unexpected"

\* lines 134-141, then app_main line 233 calls sendHTTPReq
CheckBits ==
  /\ pc = "check"
  /\ outcome' = Outcome(bits)
  /\ pc' = "resolve"
  /\ UNCHANGED <<wifiVars, bits, httpVars>>

\* --------------------------------------------------------------- sendHTTPReq
Call(op, ret) == [op |-> op, ret |-> ret]

\* close(s): fails (-1, EBADF) on a descriptor that is not an open socket
Close == Call("close", IF sock = "open" THEN 0 ELSE -1)

\* what write() may return: an error, or the number of bytes it accepted
WriteResults == {-1, 0, ReqLen - 1, ReqLen}

\* line 211: the length every read asks for, sizeof(recv_buf) - 1
ReadRequest == RecvBufSize - 1

\* what read(s, recv_buf, sizeof(recv_buf) - 1) may return: an error (the
\* receive timeout included), 0 when the peer has closed, or a byte count
ReadResults == {-1, 0, 1, ReadRequest}

RECURSIVE Received(_)
\* the number of bytes the reads logged in cs have delivered
Received(cs) ==
  IF cs = <<>> THEN 0
  ELSE LET c == cs[Len(cs)]
       IN Received(SubSeq(cs, 1, Len(cs) - 1))
            + (IF c.op = "read" /\ c.ret > 0 THEN c.ret ELSE 0)

NumDataReads(cs) == Cardinality({i \in DOMAIN cs : cs[i].op = "read" /\ cs[i].ret > 0})

\* lines 155-164: getaddrinfo; err != 0 or res == NULL ends the request
HttpResolve ==
  /\ pc = "resolve"
  /\ \E ok \in BOOLEAN :
       /\ calls' = Append(calls, Call("getaddrinfo", IF ok THEN 0 ELSE -1))
       /\ IF ok
            THEN /\ res' = "alloc"
                 /\ \E n \in 1..MaxCand : cands' = [i \in 1..n |-> i]
                 /\ pc' = "socket"
                 /\ UNCHANGED httpErr
            ELSE /\ httpErr' = "dns"
                 /\ pc' = "done"
                 /\ UNCHANGED <<res, cands>>
  /\ UNCHANGED <<wifiVars, bits, outcome, used, untried, sock, out>>

\* res->ai_family, res->ai_addr, ...: the fields of the first candidate of the
\* list; through a pointer that is not a live list the read is of freed or
\* unset memory, written 0
FirstCandidate == IF res = "alloc" THEN Head(cands) ELSE 0

\* faulty variant of HttpSocket: the failure exit returns without freeaddrinfo
HttpSocket_Leak ==
  /\ pc = "socket"
  /\ used' = used \cup {FirstCandidate}
  /\ \E ok \in BOOLEAN :
       IF ok
         THEN /\ calls' = Append(calls, Call("socket", 0))
              /\ sock' = "open"
              /\ pc' = "connect"
              /\ UNCHANGED httpErr
         ELSE /\ calls' = Append(calls, Call("socket", -1))
              /\ httpErr' = "socket"
              /\ pc' = "done"
              /\ UNCHANGED sock
  /\ UNCHANGED <<wifiVars, bits, outcome, res, cands, untried, out>>

\* lines 167-174: socket(res->ai_family, res->ai_socktype, 0)
HttpSocket ==
  /\ pc = "socket"
  /\ used' = used \cup {FirstCandidate}
  /\ \E ok \in BOOLEAN :
       IF ok
         THEN /\ calls' = Append(calls, Call("socket", 0))
              /\ sock' = "open"
              /\ pc' = "connect"
              /\ UNCHANGED <<res, cands, httpErr>>
         ELSE /\ calls' = calls \o <<Call("socket", -1), Call("freeaddrinfo", 0)>>
              /\ httpErr' = "socket"
              /\ res' = "freed"
              /\ cands' = <<>>
              /\ pc' = "done"
              /\ UNCHANGED sock
  /\ UNCHANGED <<wifiVars, bits, outcome, untried, out>>

\* faulty variant of HttpConnect: a failed connect goes on to the next
\* candidate of the list while there is one
HttpConnect_NextCandidate ==
  /\ pc = "connect"
  /\ used' = used \cup {FirstCandidate}
  /\ \E ok \in BOOLEAN :
       IF ok
         THEN /\ calls' = calls \o <<Call("connect", 0), Call("freeaddrinfo", 0)>>
              /\ res' = "freed"
              /\ cands' = <<>>
              /\ pc' = "write"
              /\ UNCHANGED <<sock, httpErr, untried>>
         ELSE IF Len(cands) > 1
           THEN /\ calls' = calls \o <<Call("connect", -1), Close>>
                /\ sock' = "closed"
                /\ cands' = Tail(cands)
                /\ pc' = "socket"
                /\ UNCHANGED <<res, httpErr, untried>>
           ELSE /\ calls' = calls \o <<Call("connect", -1), Close, Call("freeaddrinfo", 0)>>
                /\ httpErr' = "connect"
                /\ sock' = "closed"
                /\ res' = "freed"
                /\ untried' = Len(cands) - 1
                /\ cands' = <<>>
                /\ pc' = "done"
  /\ UNCHANGED <<wifiVars, bits, outcome, out>>

\* lines 176-185: connect(s, res->ai_addr, res->ai_addrlen)
HttpConnect ==
  /\ pc = "connect"
  /\ used' = used \cup {FirstCandidate}
  /\ \E ok \in BOOLEAN :
       IF ok
         THEN /\ calls' = calls \o <<Call("connect", 0), Call("freeaddrinfo", 0)>>
              /\ res' = "freed"
              /\ cands' = <<>>
              /\ pc' = "write"
              /\ UNCHANGED <<sock, httpErr, untried>>
         ELSE /\ calls' = calls \o <<Call("connect", -1), Close, Call("freeaddrinfo", 0)>>
              /\ httpErr' = "connect"
              /\ sock' = "closed"
              /\ res' = "freed"
              /\ untried' = Len(cands) - 1
              /\ cands' = <<>>
              /\ pc' = "done"
  /\ UNCHANGED <<wifiVars, bits, outcome, out>>

\* line 188: the condition on which the write counts as failed
WriteFailed(n) == n < 0

\* lines 188-194: write(s, REQUEST, strlen(REQUEST))
HttpWrite ==
  /\ pc = "write"
  /\ \E n \in WriteResults :
       IF WriteFailed(n)
         THEN /\ calls' = calls \o <<Call("write", n), Close>>
              /\ httpErr' = "send"
              /\ sock' = "closed"
              /\ pc' = "done"
         ELSE /\ calls' = Append(calls, Call("write", n))
              /\ pc' = "setsockopt"
              /\ UNCHANGED <<sock, httpErr>>
  /\ UNCHANGED <<wifiVars, bits, outcome, res, addrVars, out>>

\* faulty variant of HttpSetTimeout: the failure exit returns without close(s)
HttpSetTimeout_NoClose ==
  /\ pc = "setsockopt"
  /\ \E ok \in BOOLEAN :
       IF ok
         THEN /\ calls' = Append(calls, Call("setsockopt", 0))
              /\ pc' = "read"
              /\ UNCHANGED <<sock, httpErr>>
         ELSE /\ calls' = Append(calls, Call("setsockopt", -1))
              /\ httpErr' = "timeout"
              /\ pc' = "done"
              /\ UNCHANGED sock
  /\ UNCHANGED <<wifiVars, bits, outcome, res, addrVars, out>>

\* faulty variant of HttpSetTimeout: the failure is logged and the read goes ahead
HttpSetTimeout_ReadsAnyway ==
  /\ pc = "setsockopt"
  /\ \E ok \in BOOLEAN :
       /\ calls' = Append(calls, Call("setsockopt", IF ok THEN 0 ELSE -1))
       /\ httpErr' = IF ok THEN httpErr ELSE "timeout"
       /\ pc' = "read"
       /\ UNCHANGED sock
  /\ UNCHANGED <<wifiVars, bits, outcome, res, addrVars, out>>

\* lines 197-206: setsockopt(s, SOL_SOCKET, SO_RCVTIMEO, 5 s)
HttpSetTimeout ==
  /\ pc = "setsockopt"
  /\ \E ok \in BOOLEAN :
       IF ok
         THEN /\ calls' = Append(calls, Call("setsockopt", 0))
              /\ pc' = "read"
              /\ UNCHANGED <<sock, httpErr>>
         ELSE /\ calls' = calls \o <<Call("setsockopt", -1), Close>>
              /\ httpErr' = "timeout"
              /\ sock' = "closed"
              /\ pc' = "done"
  /\ UNCHANGED <<wifiVars, bits, outcome, res, addrVars, out>>

\* lines 210-211: recv_buf after bzero and a read that returned n; the k-th byte
\* of the response stream is written k
RecvBuf(n) ==
  [i \in 1..RecvBufSize |-> IF i <= n THEN Received(calls) + i ELSE 0]

\* faulty variant of Putchars: the loop stops one byte short
Putchars_OffByOne(buf, n) == [i \in 1..(IF n > 1 THEN n - 1 ELSE 0) |-> buf[i]]

\* lines 212-214: the bytes the putchar loop prints
Putchars(buf, n) == [i \in 1..(IF n > 0 THEN n ELSE 0) |-> buf[i]]

\* faulty variant of ReadAgain: the loop also goes on after a read of zero bytes
ReadAgain_NonNegative(n) == n >= 0

\* line 215: the loop condition
ReadAgain(n) == n > 0

\* lines 209-215: one iteration of the read loop
HttpRead ==
  /\ pc = "read"
  /\ \E n \in ReadResults :
       /\ n > 0 => NumDataReads(calls) < MaxReads
       /\ calls' = Append(calls, Call("read", n))
       /\ out' = out \o Putchars(RecvBuf(n), n)
       /\ pc' = IF ReadAgain(n) THEN "read" ELSE "close"
  /\ UNCHANGED <<wifiVars, bits, outcome, res, addrVars, sock, httpErr>>

\* lines 217-220: close(s) and return to app_main
HttpClose ==
  /\ pc = "close"
  /\ calls' = Append(calls, Close)
  /\ sock' = "closed"
  /\ pc' = "done"
  /\ UNCHANGED <<wifiVars, bits, outcome, res, addrVars, httpErr, out>>

\* ------------------------------------------------------------- specification
Next ==
  \/ CreateEventGroup
  \/ RegisterWifiHandler
  \/ RegisterIpHandler
  \/ WifiStart
  \/ WaitBits
  \/ CheckBits
  \/ StaStart
  \/ StaConnected
  \/ StaDisconnected
  \/ GotIp
  \/ HttpResolve
  \/ HttpSocket
  \/ HttpConnect
  \/ HttpWrite
  \/ HttpSetTimeout
  \/ HttpRead
  \/ HttpClose

Spec == Init /\ [][Next]_vars

\* ------------------------------------------------- reading the event history
NumOf(ev) == Cardinality({i \in DOMAIN hist : hist[i] = ev})
NDisc == NumOf(WIFI_EVENT_STA_DISCONNECTED)
NGotIp == NumOf(IP_EVENT_STA_GOT_IP)

\* the disconnect events among the first i - 1 events
DiscBefore(i) ==
  Cardinality({j \in 1..(i - 1) : hist[j] = WIFI_EVENT_STA_DISCONNECTED})

\* event i is the first address-acquired event
FirstGotIpAt(i) ==
  /\ hist[i] = IP_EVENT_STA_GOT_IP
  /\ \A j \in 1..(i - 1) : hist[j] # IP_EVENT_STA_GOT_IP

\* the disconnect events delivered since the last address-acquired event
DiscSinceGotIp ==
  Cardinality({i \in DOMAIN hist :
                 /\ hist[i] = WIFI_EVENT_STA_DISCONNECTED
                 /\ \A j \in i..Len(hist) : hist[j] # IP_EVENT_STA_GOT_IP})

Returned == outcome # "none"

\* ------------------------------------------------------------------- claims

\* C1 as stated: once the driver-start event and exactly max_attempts
\* disconnect events have been delivered, with no address-acquired event, the
\* Failure signal is set (so that connect() returns Failed without a further
\* event) and connRetries equals max_attempts.
C1_FailedAfterMaxDisconnects ==
  (/\ hist # <<>>
   /\ hist[1] = WIFI_EVENT_STA_START
   /\ NGotIp = 0
   /\ NDisc = wifiRetry)
    => (WIFI_CONN_FAIL \in wifiEventGroup /\ connRetries = wifiRetry)

\* C1 amended: with no address-acquired event, up to max_attempts disconnect
\* events only count (connRetries equals their number, no signal is set and
\* connect() has not returned); it is disconnect number max_attempts + 1 that
\* sets Failure, after which connRetries equals max_attempts, the caller is
\* not blocked and connect() returns Failed.
C1_FailedAfterOneMoreDisconnect ==
  NGotIp = 0 =>
    /\ NDisc <= wifiRetry =>
         /\ connRetries = NDisc
         /\ wifiEventGroup = {}
         /\ ~Returned
         /\ pc \in {"create", "register_wifi", "register_ip", "start", "wait",
                    "blocked", "aborted"}
    /\ NDisc > wifiRetry =>
         /\ connRetries = wifiRetry
         /\ wifiEventGroup = {WIFI_CONN_FAIL}
         /\ pc # "blocked"
         /\ Returned => outcome = "Failed"

C1_Witness ==
  /\ wifiRetry = 2
  /\ hist = <<WIFI_EVENT_STA_START, WIFI_EVENT_STA_DISCONNECTED,
              WIFI_EVENT_STA_DISCONNECTED, WIFI_EVENT_STA_DISCONNECTED>>
  /\ connRetries = 2
  /\ outcome = "Failed"

\* C2: when the first address-acquired event is delivered after k < max_attempts
\* disconnect events, the Success signal is set with connRetries = 0 at that
\* moment, the caller is not left blocked, and connect() returns Joined.
C2_JoinedAfterFewerDisconnects ==
  \A i \in DOMAIN hist :
    (FirstGotIpAt(i) /\ DiscBefore(i) < wifiRetry) =>
      /\ WIFI_CONN_SUCC \in wifiEventGroup
      /\ firstTerminal = WIFI_CONN_SUCC
      /\ pc # "blocked"
      /\ Returned => outcome = "Joined"
      /\ i = Len(hist) => (connRetries = 0 /\ wifiEventGroup = {WIFI_CONN_SUCC})

C2_Witness ==
  /\ wifiRetry = 2
  /\ hist = <<WIFI_EVENT_STA_START, WIFI_EVENT_STA_DISCONNECTED, IP_EVENT_STA_GOT_IP>>
  /\ connRetries = 0
  /\ outcome = "Joined"

FirstOutcome == IF firstTerminal = WIFI_CONN_SUCC THEN "Joined" ELSE "Failed"

NumCalls(op) == Cardinality({i \in DOMAIN calls : calls[i].op = op})
NumOk(op) == Cardinality({i \in DOMAIN calls : calls[i].op = op /\ calls[i].ret >= 0})

IsStep(c) == c.op \notin {"close", "freeaddrinfo"}
IsRead(c) == c.op = "read"

\* the calls of the fetch without the releases
Steps == SelectSeq(calls, IsStep)
Reads == SelectSeq(calls, IsRead)

StepOrder == <<"getaddrinfo", "socket", "connect", "write", "setsockopt">>

\* C6 as stated: a fetch operation is performed only after connect() has
\* returned Joined.
C6_FetchOnlyAfterJoined == calls # <<>> => outcome = "Joined"

\* C7: close is only ever called on the open socket, at most once per
\* allocated socket, and when sendHTTPReq has returned the socket is not open:
\* it was closed exactly once if it was allocated and never otherwise.
C7_SocketAlwaysReleased ==
  /\ \A i \in DOMAIN calls : calls[i].op = "close" => calls[i].ret = 0
  /\ NumCalls("close") <= NumOk("socket")
  /\ NumOk("socket") <= 1
  /\ sock = "open" <=> (NumOk("socket") = 1 /\ NumCalls("close") = 0)
  /\ pc = "done" => (sock # "open" /\ NumCalls("close") = NumOk("socket"))

\* the fetch ended on the receive timeout after one chunk
C7_Witness ==
  /\ pc = "done"
  /\ sock = "closed"
  /\ Len(Reads) = 2
  /\ Reads[2].ret = -1
  /\ NumCalls("close") = 1

\* C8 as stated: a write that accepts fewer bytes than the request is fatal:
\* send-failure reported, socket released, no set-timeout and no read.
C8_ShortWriteIsFatal ==
  \A i \in DOMAIN calls :
    (calls[i].op = "write" /\ calls[i].ret < ReqLen) =>
      /\ httpErr = "send"
      /\ sock = "closed"
      /\ NumCalls("setsockopt") = 0
      /\ NumCalls("read") = 0

\* C9: the steps are made in the order resolve, socket, connect, write,
\* set-timeout, reads; a step that failed is the last step of the fetch, its
\* error is reported and sendHTTPReq has returned.
C9_StepsInOrderFailureEnds ==
  /\ \A i \in DOMAIN Steps :
       /\ Steps[i].op = (IF i <= Len(StepOrder) THEN StepOrder[i] ELSE "read")
       /\ (Steps[i].op # "read" /\ Steps[i].ret < 0) =>
            (i = Len(Steps) /\ pc = "done" /\ httpErr # "none")
  /\ httpErr = "dns" => (NumCalls("socket") = 0 /\ sock = "none" /\ res = "unset")
  /\ httpErr = "timeout" => NumCalls("read") = 0
  /\ httpErr # "none" => pc = "done"

\* the receive timeout could not be set
C9_Witness ==
  /\ httpErr = "timeout"
  /\ pc = "done"
  /\ Len(Steps) = 5
  /\ Steps[5] = Call("setsockopt", -1)

\* C10: when every step up to set-timeout succeeded and the first read
\* returns zero, nothing is printed, no error is reported, no further read is
\* made, and sendHTTPReq closes the socket and returns.
C10_PeerClosedAtOnce ==
  (Reads # <<>> /\ Reads[1].ret = 0) =>
    /\ out = <<>>
    /\ httpErr = "none"
    /\ Len(Reads) = 1
    /\ pc \in {"close", "done"}
    /\ pc = "done" => (sock = "closed" /\ calls[Len(calls)] = Call("close", 0))

C10_Witness ==
  /\ pc = "done"
  /\ Reads = <<Call("read", 0)>>
  /\ out = <<>>
  /\ sock = "closed"


\* the positions of the main task after xEventGroupWaitBits has returned
PastWait == {"check", "resolve", "socket", "connect", "write", "setsockopt",
             "read", "close", "done"}

LastEvent(h) == h[Len(h)]

\* C11: the wait returns only on a terminal event.  Wherever the caller is
\* past the wait, a signal is set in the event group and in the bits it was
\* handed, and the "unexpected event" branch is never taken; a blocked caller
\* means no signal is set, and it leaves the wait only in the step of an
\* address-acquired event or of a disconnect event that finds connRetries ==
\* max_attempts: there is no timeout transition.
C11_ReturnsOnlyOnTerminalEvent ==
  /\ [](pc \in PastWait =>
          (bits \cap Signals # {} /\ bits \subseteq wifiEventGroup))
  /\ [](outcome # "Unexpected")
  /\ [](pc = "blocked" => wifiEventGroup = {})
  /\ [][(pc = "blocked" /\ pc' # "blocked") =>
          /\ hist' # hist
          /\ \/ LastEvent(hist') = IP_EVENT_STA_GOT_IP
             \/ (LastEvent(hist') = WIFI_EVENT_STA_DISCONNECTED
                 /\ connRetries = wifiRetry)]_vars

\* the caller is still blocked after max_attempts disconnect events
C11_Witness ==
  /\ pc = "blocked"
  /\ wifiRetry = 2
  /\ hist = <<WIFI_EVENT_STA_START, WIFI_EVENT_STA_DISCONNECTED,
              WIFI_EVENT_STA_DISCONNECTED>>

\* C12: connRetries stays within 0..max_attempts under every sequence of
\* events, before and after the Failure signal is set.
C12_RetriesWithinBound == 0 <= connRetries /\ connRetries <= wifiRetry

\* one disconnect event more than the bound, and the counter stays at it
C12_Witness ==
  /\ wifiRetry = 2
  /\ NGotIp = 0
  /\ NDisc = 3
  /\ connRetries = 2


\* C13: what is printed is the chunks of the reads that returned data, in
\* order and complete (byte k of the response stream is written k, so this is
\* the sequence 1..Received); no read returns more than capacity - 1 bytes;
\* only the last read of a fetch returns zero or an error.
C13_OutputIsTheChunksInOrder ==
  /\ out = [k \in 1..Received(calls) |-> k]
  /\ \A i \in DOMAIN Reads :
       /\ Reads[i].ret <= RecvBufSize - 1
       /\ i < Len(Reads) => Reads[i].ret > 0
  /\ (Reads # <<>> /\ Reads[Len(Reads)].ret <= 0) => pc \in {"close", "done"}

\* a full buffer, then one byte, then the peer closes
C13_Witness ==
  /\ pc = "done"
  /\ Reads = <<Call("read", RecvBufSize - 1), Call("read", 1), Call("read", 0)>>
  /\ Len(out) = RecvBufSize
  /\ out[RecvBufSize] = RecvBufSize


\* the step delivers event ev
Delivers(ev) == hist' = Append(hist, ev)

\* C14: a disconnect event that finds connRetries < max_attempts increments
\* connRetries by one, issues one association request, and leaves the signals,
\* the caller's bits and the caller's position unchanged.
C14_DisconnectBelowBoundRetries ==
  [][(Delivers(WIFI_EVENT_STA_DISCONNECTED) /\ connRetries < wifiRetry) =>
       /\ connRetries' = connRetries + 1
       /\ assocReqs' = assocReqs + 1
       /\ wifiEventGroup' = wifiEventGroup
       /\ bits' = bits
       /\ pc' = pc]_vars

C14_Witness ==
  /\ wifiRetry = 2
  /\ hist = <<WIFI_EVENT_STA_START, WIFI_EVENT_STA_DISCONNECTED>>
  /\ connRetries = 1
  /\ assocReqs = 2
  /\ wifiEventGroup = {}

\* C15: a disconnect event that finds connRetries = max_attempts sets the
\* Failure signal, issues no association request and leaves connRetries
\* unchanged; no other step sets the Failure signal.
C15_DisconnectAtBoundFails ==
  [][/\ (Delivers(WIFI_EVENT_STA_DISCONNECTED) /\ connRetries = wifiRetry) =>
          /\ wifiEventGroup' = wifiEventGroup \cup {WIFI_CONN_FAIL}
          /\ assocReqs' = assocReqs
          /\ connRetries' = connRetries
     /\ (WIFI_CONN_FAIL \notin wifiEventGroup /\ WIFI_CONN_FAIL \in wifiEventGroup') =>
          (Delivers(WIFI_EVENT_STA_DISCONNECTED) /\ connRetries = wifiRetry)]_vars

C15_Witness ==
  /\ wifiRetry = 1
  /\ hist = <<WIFI_EVENT_STA_START, WIFI_EVENT_STA_DISCONNECTED,
              WIFI_EVENT_STA_DISCONNECTED>>
  /\ wifiEventGroup = {WIFI_CONN_FAIL}
  /\ assocReqs = 2
  /\ connRetries = 1


\* C16: resolve, socket, connect, write and set-timeout are each called at
\* most once per fetch; socket() and connect() are only ever given the first
\* candidate of the list; a failed connect is the last step of the fetch,
\* which reports a connection failure and returns, whatever candidates remain.
C16_FirstCandidateSingleAttempt ==
  /\ \A i \in DOMAIN StepOrder : NumCalls(StepOrder[i]) <= 1
  /\ used \subseteq {1}
  /\ untried > 0 => httpErr = "connect"
  /\ httpErr = "connect" =>
       /\ pc = "done"
       /\ Len(Steps) = 3
       /\ Steps[3] = Call("connect", -1)

\* connect to the first of two candidates failed; the second was never tried
C16_Witness ==
  /\ httpErr = "connect"
  /\ pc = "done"
  /\ untried = 1
  /\ used = {1}
  /\ NumCalls("connect") = 1

\* C17: the address list is released at most once and only after a
\* successful resolution; when sendHTTPReq has returned after a successful
\* resolution it was released exactly once; it is released before the write;
\* neither socket() nor connect() is called after the release, and neither
\* reads through a pointer that is not a live list.
C17_AddressListReleasedOnce ==
  /\ NumCalls("freeaddrinfo") <= NumOk("getaddrinfo")
  /\ NumOk("getaddrinfo") <= 1
  /\ res = "freed" <=> NumCalls("freeaddrinfo") = 1
  /\ res = "alloc" <=> (NumOk("getaddrinfo") = 1 /\ NumCalls("freeaddrinfo") = 0)
  /\ (pc = "done" /\ NumOk("getaddrinfo") = 1) => NumCalls("freeaddrinfo") = 1
  /\ pc \in {"write", "setsockopt", "read", "close"} => res = "freed"
  /\ \A i, j \in DOMAIN calls :
       (calls[i].op = "freeaddrinfo" /\ i < j) => calls[j].op \notin {"socket", "connect"}
  /\ 0 \notin used
  /\ res = "alloc" <=> cands # <<>>

\* the socket could not be allocated: the list is released on that exit
C17_Witness ==
  /\ pc = "done"
  /\ httpErr = "socket"
  /\ res = "freed"
  /\ calls = <<Call("getaddrinfo", 0), Call("socket", -1), Call("freeaddrinfo", 0)>>


NStart == NumOf(WIFI_EVENT_STA_START)

\* C19: with no address-acquired event the association requests issued are
\* one per driver-start event plus one per disconnect event up to
\* max_attempts; with a single driver-start event that is at most
\* 1 + max_attempts, however many disconnect events are delivered.
C19_AssociationRequestsBounded ==
  NGotIp = 0 =>
    /\ assocReqs = NStart + (IF NDisc < wifiRetry THEN NDisc ELSE wifiRetry)
    /\ NStart <= 1 => assocReqs <= 1 + wifiRetry

\* more disconnect events than retries: the requests stop at 1 + max_attempts
C19_Witness ==
  /\ wifiRetry = 1
  /\ NStart = 1
  /\ NGotIp = 0
  /\ NDisc = 3
  /\ assocReqs = 2


\* C20: the driver is started only after the event group exists and both
\* handlers are registered.  So no signal is ever set in a group that does not
\* exist (a start-up abort can only happen before any event), every
\* driver-start event delivered leads to exactly one association request, and
\* no association request is issued before the driver was started.
C20_SetUpBeforeStart ==
  /\ [](started => (groupCreated /\ wifiReg /\ ipReg))
  /\ [](wifiEventGroup # {} => groupCreated)
  /\ [](pc = "aborted" => (hist = <<>> /\ ~started))
  /\ [](assocReqs > 0 => started)
  /\ [][Delivers(WIFI_EVENT_STA_START) => assocReqs' = assocReqs + 1]_vars

\* the driver-start event is handled before the caller has entered the wait
C20_Witness ==
  /\ pc = "wait"
  /\ hist = <<WIFI_EVENT_STA_START>>
  /\ assocReqs = 1

\* ------------------------------------------- a driver that never gets an address
\* esp_wifi_start posts the driver-start event, once
DrvStart == NStart = 0 /\ StaStart

\* the driver answers every association request with a disconnect event
DrvDisconnect == NDisc < assocReqs /\ StaDisconnected

\* the steps of the main task
MainStep ==
  \/ CreateEventGroup
  \/ RegisterWifiHandler
  \/ RegisterIpHandler
  \/ WifiStart
  \/ WaitBits
  \/ CheckBits
  \/ HttpResolve
  \/ HttpSocket
  \/ HttpConnect
  \/ HttpWrite
  \/ HttpSetTimeout
  \/ HttpRead
  \/ HttpClose

NextFail == MainStep \/ DrvStart \/ DrvDisconnect

\* the main task runs whenever it is ready, and the event loop delivers every
\* event the driver posts
SpecFail ==
  /\ Init
  /\ [][NextFail]_vars
  /\ WF_vars(MainStep)
  /\ WF_vars(DrvStart)
  /\ WF_vars(DrvDisconnect)

\* C18: with such a driver, once it has been started connectWIFI eventually
\* reports Failed, for every max_attempts.
C18_EventuallyFailed == started ~> (outcome = "Failed")

C18_Witness ==
  /\ wifiRetry = MaxRetry
  /\ outcome = "Failed"
  /\ NDisc = wifiRetry + 1
  /\ assocReqs = wifiRetry + 1

====
